---- MODULE Spec2Model ----
(***************************************************************************)
(* solpda: derivation of a Solana Program Derived Address from a program   *)
(* id and a list of typed seed literals (src/main.rs).                     *)
(*                                                                         *)
(* Text is modelled as a sequence of one-character strings, bytes as       *)
(* integers 0..255.  Integers parsed from text are kept as decimal digit   *)
(* sequences so that u32/u64 values do not depend on the width of the      *)
(* model checker's own integers.                                           *)
(***************************************************************************)
EXTENDS Integers, Sequences, FiniteSets, TLC

(***************************************************************************)
(* Bounds of the model                                                     *)
(***************************************************************************)
MaxSeeds == 2
MaxTokens == 2
MaxNest == 2

(***************************************************************************)
(* Text helpers (str methods used by main.rs)                              *)
(***************************************************************************)
Ascii ==
  <<" ", "!", "dquote", "#", "$", "%", "&", "'", "(", ")", "*", "+", ",", "-", ".", "/",
    "0", "1", "2", "3", "4", "5", "6", "7", "8", "9", ":", ";", "<", "=", ">", "?",
    "@", "A", "B", "C", "D", "E", "F", "G", "H", "I", "J", "K", "L", "M", "N", "O",
    "P", "Q", "R", "S", "T", "U", "V", "W", "X", "Y", "Z", "[", "bslash", "]", "^", "_",
    "bquote", "a", "b", "c", "d", "e", "f", "g", "h", "i", "j", "k", "l", "m", "n", "o",
    "p", "q", "r", "s", "t", "u", "v", "w", "x", "y", "z", "{", "|", "}", "~">>

CharCode(c) == 31 + (CHOOSE i \in 1..Len(Ascii) : Ascii[i] = c)

as_bytes(s) == [i \in 1..Len(s) |-> CharCode(s[i])]

starts_with(s, p) == Len(s) >= Len(p) /\ SubSeq(s, 1, Len(p)) = p

ends_with(s, p) == Len(s) >= Len(p) /\ SubSeq(s, Len(s) - Len(p) + 1, Len(s)) = p

StripPrefix(s, p) == SubSeq(s, Len(p) + 1, Len(s))

replace_spaces(s) == SelectSeq(s, LAMBDA c : c # " ")

\* s.split(","): the pieces between consecutive commas, n commas give n + 1 pieces
split_comma(s) ==
  LET commas == {i \in 1..Len(s) : s[i] = ","}
      at(k) == CHOOSE i \in commas : Cardinality({j \in commas : j < i}) = k - 1
      n == Cardinality(commas) + 1
  IN  [k \in 1..n |->
         SubSeq(s, IF k = 1 THEN 1 ELSE at(k - 1) + 1, IF k = n THEN Len(s) ELSE at(k) - 1)]

RECURSIVE FlattenRange(_, _, _)
FlattenRange(ss, lo, hi) ==
  IF lo > hi THEN <<>>
  ELSE IF lo = hi THEN ss[lo]
  ELSE LET mid == (lo + hi) \div 2
       IN  FlattenRange(ss, lo, mid) \o FlattenRange(ss, mid + 1, hi)

Flatten(ss) == FlattenRange(ss, 1, Len(ss))

(***************************************************************************)
(* Integer parsing and serialisation: str::parse::<uW>() and to_le_bytes() *)
(***************************************************************************)
DigitChars == <<"0", "1", "2", "3", "4", "5", "6", "7", "8", "9">>

IsDigit(c) == \E d \in 1..10 : DigitChars[d] = c

DigitVal(c) == (CHOOSE d \in 1..10 : DigitChars[d] = c) - 1

\* One long division of a decimal numeral by 256: <<quotient digits, remainder>>
RECURSIVE DivMod256(_, _, _)
DivMod256(ds, q, r) ==
  IF ds = <<>> THEN <<q, r>>
  ELSE LET t == r * 10 + Head(ds)
       IN  DivMod256(Tail(ds), Append(q, t \div 256), t % 256)

IsZeroNumeral(ds) == \A i \in 1..Len(ds) : ds[i] = 0

\* the n low-order base-256 limbs of a decimal numeral, least significant first
RECURSIVE LeLimbs(_, _)
LeLimbs(ds, n) ==
  IF n = 0 THEN <<>>
  ELSE LET qr == DivMod256(ds, <<>>, 0)
       IN  <<qr[2]>> \o LeLimbs(qr[1], n - 1)

RECURSIVE ShiftRight256(_, _)
ShiftRight256(ds, n) ==
  IF n = 0 THEN ds ELSE ShiftRight256(DivMod256(ds, <<>>, 0)[1], n - 1)

\* s.parse::<uW>() with W = 8 * nbytes: Ok(value) or Err
parse_uint(s, nbytes) ==
  LET body == IF s # <<>> /\ s[1] = "+" THEN Tail(s) ELSE s
  IN  IF s = <<>> \/ body = <<>> THEN [ok |-> FALSE, err |-> "Empty"]
      ELSE IF \E i \in 1..Len(body) : ~IsDigit(body[i])
        THEN [ok |-> FALSE, err |-> "InvalidDigit"]
      ELSE LET ds == [i \in 1..Len(body) |-> DigitVal(body[i])]
           IN  IF ~IsZeroNumeral(ShiftRight256(ds, nbytes))
                 THEN [ok |-> FALSE, err |-> "PosOverflow"]
                 ELSE [ok |-> TRUE, value |-> ds]

to_le_bytes(v, nbytes) == LeLimbs(v, nbytes)

(***************************************************************************)
(* Library collaborators: sha2::Sha256, bs58, curve25519/ed25519 dalek.    *)
(*                                                                         *)
(* Sha256 stands for the sha2 crate's digest: one fixed deterministic      *)
(* function from a byte string to exactly 32 bytes that depends on every   *)
(* byte of the input and on its position.  A hasher is the byte string fed *)
(* to it so far (update appends, finalize applies the function).           *)
(***************************************************************************)
RECURSIVE WeightedSum(_, _, _, _)
WeightedSum(m, lo, hi, weighted) ==
  IF lo > hi THEN 0
  ELSE IF lo = hi THEN (IF weighted THEN lo * m[lo] ELSE m[lo]) % 256
  ELSE LET mid == (lo + hi) \div 2
       IN  (WeightedSum(m, lo, mid, weighted) + WeightedSum(m, mid + 1, hi, weighted)) % 256

Sha256_new == <<>>

hasher_update(h, data) == h \o data

hasher_finalize(h) ==
  LET s1 == WeightedSum(h, 1, Len(h), FALSE)
      s2 == WeightedSum(h, 1, Len(h), TRUE)
  IN  [i \in 1..32 |-> (s1 * i + s2 + 31 * Len(h) + 7 * i * i + 99) % 256]

Reverse(s) == [i \in 1..Len(s) |-> s[Len(s) + 1 - i]]

Bs58Alphabet ==
  <<"1", "2", "3", "4", "5", "6", "7", "8", "9", "A", "B", "C", "D", "E", "F", "G",
    "H", "J", "K", "L", "M", "N", "P", "Q", "R", "S", "T", "U", "V", "W", "X", "Y",
    "Z", "a", "b", "c", "d", "e", "f", "g", "h", "i", "j", "k", "m", "n", "o", "p",
    "q", "r", "s", "t", "u", "v", "w", "x", "y", "z">>

IsBs58Char(c) == \E i \in 1..58 : Bs58Alphabet[i] = c

Bs58Val(c) == (CHOOSE i \in 1..58 : Bs58Alphabet[i] = c) - 1

RECURSIVE LeadingCount(_, _)
LeadingCount(s, x) ==
  IF s = <<>> \/ Head(s) # x THEN 0 ELSE 1 + LeadingCount(Tail(s), x)

Zeros(n) == [i \in 1..n |-> 0]

\* out := out * from + val, out held least significant digit first in base `to`
RECURSIVE MulAdd(_, _, _, _)
MulAdd(out, val, from, to) ==
  IF out = <<>>
    THEN IF val = 0 THEN <<>> ELSE <<val % to>> \o MulAdd(<<>>, val \div to, from, to)
    ELSE LET t == val + Head(out) * from
         IN  <<t % to>> \o MulAdd(Tail(out), t \div to, from, to)

RECURSIVE Rebase(_, _, _, _)
Rebase(input, out, from, to) ==
  IF input = <<>> THEN out
  ELSE Rebase(Tail(input), MulAdd(out, Head(input), from, to), from, to)

\* bs58::decode(s).into_vec()
bs58_decode(s) ==
  IF \E i \in 1..Len(s) : ~IsBs58Char(s[i])
    THEN [ok |-> FALSE, err |-> "InvalidCharacter"]
    ELSE LET vals == [i \in 1..Len(s) |-> Bs58Val(s[i])]
             le == Rebase(vals, <<>>, 58, 256) \o Zeros(LeadingCount(vals, 0))
         IN  [ok |-> TRUE, bytes |-> Reverse(le)]

\* bs58::encode(bytes).into_string()
bs58_encode(b) ==
  LET le == Rebase(b, <<>>, 256, 58) \o Zeros(LeadingCount(b, 0))
  IN  Reverse([i \in 1..Len(le) |-> Bs58Alphabet[le[i] + 1]])

\* impl FromStr for Pubkey
Pubkey_from_str(s) ==
  LET v == bs58_decode(s)
  IN  IF ~v.ok THEN [ok |-> FALSE, err |-> v.err]
      ELSE IF Len(v.bytes) = 32 THEN [ok |-> TRUE, pubkey |-> v.bytes]
      ELSE [ok |-> FALSE, err |-> "Invalid address"]

\* impl Display for Pubkey
Pubkey_fmt(pk) == bs58_encode(pk)

(***************************************************************************)
(* Seed literals                                                           *)
(***************************************************************************)
U8_PREFIX == <<"u", "8", "[">>
U16_PREFIX == <<"u", "1", "6", "[">>
U32_PREFIX == <<"u", "3", "2", "[">>
U64_PREFIX == <<"u", "6", "4", "[">>
STRING_PREFIX == <<"S", "t", "r", "i", "n", "g", "[">>
PUBKEY_PREFIX == <<"P", "u", "b", "k", "e", "y", "[">>
SHA256_PREFIX == <<"S", "h", "a", "2", "5", "6", "[">>

RECURSIVE NumeralVal(_, _)
NumeralVal(ds, acc) ==
  IF ds = <<>> THEN acc ELSE NumeralVal(Tail(ds), acc * 10 + Head(ds))

\* tokens.map(parse::<uW>): the first Err, or the parsed values in order
ParseAll(toks, nbytes) ==
  LET r == [i \in 1..Len(toks) |-> parse_uint(toks[i], nbytes)]
      bad == {i \in 1..Len(toks) : ~r[i].ok}
  IN  IF bad = {} THEN [ok |-> TRUE, values |-> [i \in 1..Len(toks) |-> r[i].value]]
      ELSE [ok |-> FALSE, err |-> r[CHOOSE i \in bad : \A j \in bad : i <= j].err]

u8_list_to_vec(bytes) ==
  LET r == ParseAll(split_comma(replace_spaces(bytes)), 1)
  IN  IF r.ok
        THEN [ok |-> TRUE, vec |-> [i \in 1..Len(r.values) |-> NumeralVal(r.values[i], 0)]]
        ELSE [ok |-> FALSE, err |-> r.err]

\* outcomes of make_seed: the bytes, exit(-1) after "Invalid seed", or a panic
SeedOk(b) == [ok |-> TRUE, bytes |-> b]
SeedExit(s) == [ok |-> FALSE, exit |-> -1, stderr |-> "Invalid seed", text |-> s]
SeedPanic(e) == [ok |-> FALSE, exit |-> 101, stderr |-> "panic", text |-> e]

uint_list_seed(payload, nbytes) ==
  LET r == ParseAll(split_comma(replace_spaces(payload)), nbytes)
  IN  IF r.ok
        THEN SeedOk(Flatten([i \in 1..Len(r.values) |-> to_le_bytes(r.values[i], nbytes)]))
        ELSE SeedPanic(r.err)

\* a Sha256[..] arm that would pass the nested encoding through unhashed
sha256_seed_plain(inner) == inner

\* the Sha256[..] arm: the digest of the nested literal's encoding
sha256_seed(inner) ==
  IF inner.ok THEN SeedOk(hasher_finalize(hasher_update(Sha256_new, inner.bytes))) ELSE inner

RECURSIVE make_seed(_)
make_seed(s) ==
  IF ~ends_with(s, <<"]">>) THEN SeedExit(s)
  ELSE LET t == SubSeq(s, 1, Len(s) - 1)
       IN  IF starts_with(t, U8_PREFIX)
             THEN LET r == u8_list_to_vec(StripPrefix(t, U8_PREFIX))
                  IN  IF r.ok THEN SeedOk(r.vec) ELSE SeedPanic(r.err)
           ELSE IF starts_with(t, U16_PREFIX)
             THEN uint_list_seed(StripPrefix(t, U16_PREFIX), 2)
           ELSE IF starts_with(t, U32_PREFIX)
             THEN uint_list_seed(StripPrefix(t, U32_PREFIX), 4)
           ELSE IF starts_with(t, U64_PREFIX)
             THEN uint_list_seed(StripPrefix(t, U64_PREFIX), 8)
           ELSE IF starts_with(t, STRING_PREFIX)
             THEN SeedOk(as_bytes(StripPrefix(t, STRING_PREFIX)))
           ELSE IF starts_with(t, PUBKEY_PREFIX)
             THEN LET r == Pubkey_from_str(StripPrefix(t, PUBKEY_PREFIX))
                  IN  IF r.ok THEN SeedOk(r.pubkey) ELSE SeedPanic(r.err)
           ELSE IF starts_with(t, SHA256_PREFIX)
             THEN sha256_seed(make_seed(StripPrefix(t, SHA256_PREFIX)))
           ELSE SeedExit(s)

\* seeds.iter().map(make_seed).flatten().collect(): stops at the first literal
\* whose make_seed ends the process
\* a collector that would put each encoding in front of the earlier ones
flatten_collect_front(acc, item) == item \o acc

flatten_collect(acc, item) == acc \o item

RECURSIVE encode_all(_, _)
encode_all(lits, acc) ==
  IF lits = <<>> THEN SeedOk(acc)
  ELSE LET r == make_seed(Head(lits))
       IN  IF r.ok THEN encode_all(Tail(lits), flatten_collect(acc, r.bytes)) ELSE r

(***************************************************************************)
(* Program state                                                           *)
(***************************************************************************)
VARIABLES
  pc,           \* position in main / find_pda
  seeds,        \* main: the argument strings not yet consumed
  no_bump_seed, \* main: --no-bump-seed seen
  bytes,        \* main: --bytes seen
  pubkey_only,  \* main: -pubkey seen
  program_id,   \* main: the resolved program id (32 bytes), <<>> before
  seed,         \* main: the encoded seed buffer handed to find_pda
  bump_seed,    \* find_pda: the i16 loop counter
  hash_input,   \* try_find_pda: bytes fed to the hasher by the latest call
  tried,        \* the try_find_pda calls in order: Option<u8> argument, curve answer
  curve,        \* answers given so far by the curve-membership test
  result,       \* find_pda's return value
  stdout,       \* characters printed to standard output
  stderr,       \* messages printed to standard error
  status        \* how the process ended

vars == <<pc, seeds, no_bump_seed, bytes, pubkey_only, program_id, seed, bump_seed,
          hash_input, tried, curve, result, stdout, stderr, status>>

Running == [exited |-> FALSE]
Exited(code) == [exited |-> TRUE, code |-> code]

Pending == [returned |-> FALSE]
None == [returned |-> TRUE, some |-> FALSE]
Some(pk, b) == [returned |-> TRUE, some |-> TRUE, pubkey |-> pk, bump |-> b]

Newline == "LF"
UsageText == "usage_string"
DOMAIN_TAG == as_bytes(<<"P", "r", "o", "g", "r", "a", "m", "D", "e", "r", "i", "v", "e",
                         "d", "A", "d", "d", "r", "e", "s", "s">>)
U8_MAX == 255

(***************************************************************************)
(* Option parsing, main lines 226-262                                      *)
(***************************************************************************)
OPT_HELP == <<"-", "-", "h", "e", "l", "p">>
OPT_PUBKEY == <<"-", "p", "u", "b", "k", "e", "y">>
OPT_NO_BUMP == <<"-", "-", "n", "o", "-", "b", "u", "m", "p", "-", "s", "e", "e", "d">>
OPT_BYTES == <<"-", "-", "b", "y", "t", "e", "s">>

RECURSIVE ParseFlags(_, _)
ParseFlags(args, st) ==
  IF args = <<>> THEN [st EXCEPT !.rest = args]
  ELSE IF Head(args) = OPT_HELP THEN [st EXCEPT !.help = TRUE, !.rest = args]
  ELSE IF Head(args) = OPT_PUBKEY THEN ParseFlags(Tail(args), [st EXCEPT !.pubkey_only = TRUE])
  ELSE IF Head(args) = OPT_NO_BUMP THEN ParseFlags(Tail(args), [st EXCEPT !.no_bump_seed = TRUE])
  ELSE IF Head(args) = OPT_BYTES THEN ParseFlags(Tail(args), [st EXCEPT !.bytes = TRUE])
  ELSE [st EXCEPT !.rest = args]

ParseOptions ==
  /\ pc = "main"
  /\ LET st == ParseFlags(seeds, [help |-> FALSE, pubkey_only |-> FALSE,
                                  no_bump_seed |-> FALSE, bytes |-> FALSE, rest |-> <<>>])
     IN  /\ seeds' = st.rest
         /\ no_bump_seed' = st.no_bump_seed
         /\ bytes' = st.bytes
         /\ pubkey_only' = st.pubkey_only
         /\ IF st.help
              THEN /\ stdout' = <<UsageText, Newline>>
                   /\ stderr' = stderr
                   /\ status' = Exited(0)
                   /\ pc' = "exited"
            ELSE IF Len(st.rest) < 1
              THEN /\ stderr' = Append(stderr, UsageText)
                   /\ stdout' = stdout
                   /\ status' = Exited(-1)
                   /\ pc' = "exited"
            ELSE /\ pc' = "program_id"
                 /\ UNCHANGED <<stdout, stderr, status>>
  /\ UNCHANGED <<program_id, seed, bump_seed, hash_input, tried, curve, result>>

(***************************************************************************)
(* Program id resolution, main lines 264-284                               *)
(***************************************************************************)
\* format!("{}", n) for a u8
fmt_u8(n) ==
  IF n >= 100
    THEN <<DigitChars[(n \div 100) + 1], DigitChars[((n \div 10) % 10) + 1],
           DigitChars[(n % 10) + 1]>>
  ELSE IF n >= 10 THEN <<DigitChars[(n \div 10) + 1], DigitChars[(n % 10) + 1]>>
  ELSE <<DigitChars[n + 1]>>

\* the first byte is printed bare, every later one behind a comma
print_pubkey_bytes(b) ==
  <<"[">> \o Flatten([i \in 1..Len(b) |-> (IF i > 1 THEN <<",">> ELSE <<>>) \o fmt_u8(b[i])])
          \o <<"]">>

\* ed25519_dalek::Keypair::from_bytes(..).public.to_bytes(): 64 bytes whose
\* second half decompresses to a curve point (on_curve is the library's answer)
Keypair_public(v, on_curve) ==
  IF Len(v) # 64 THEN [ok |-> FALSE, err |-> "signature error"]
  ELSE IF ~on_curve THEN [ok |-> FALSE, err |-> "signature error"]
  ELSE [ok |-> TRUE, pubkey |-> SubSeq(v, 33, 64)]

private_key_bytes_array_to_pubkey(text, on_curve) ==
  IF starts_with(text, <<"[">>) /\ ends_with(text, <<"]">>)
    THEN LET v == u8_list_to_vec(SubSeq(text, 2, Len(text) - 1))
         IN  IF v.ok THEN Keypair_public(v.vec, on_curve) ELSE [ok |-> FALSE, err |-> v.err]
    ELSE [ok |-> FALSE, err |-> "Invalid key file contents"]

public_key_bytes_array_to_pubkey(text) ==
  IF starts_with(text, <<"[">>) /\ ends_with(text, <<"]">>)
    THEN LET v == u8_list_to_vec(SubSeq(text, 2, Len(text) - 1))
         IN  IF ~v.ok THEN [ok |-> FALSE, err |-> v.err]
             ELSE IF Len(v.vec) = 32 THEN [ok |-> TRUE, pubkey |-> v.vec]
             ELSE [ok |-> FALSE, err |-> "Incorrect number of bytes in public key"]
    ELSE [ok |-> FALSE, err |-> "Invalid key file contents"]

\* The environment: the one path that may name a readable file, and what
\* std::fs::read_to_string can return for an argument
KEY_PATH == <<"i", "d", ".", "j", "s", "o", "n">>
KEY_FILE_PUBLIC == [i \in 1..32 |-> 100 + i]
KEY_FILE_GOOD == print_pubkey_bytes([i \in 1..32 |-> i] \o KEY_FILE_PUBLIC)
KEY_FILE_SHORT == print_pubkey_bytes([i \in 1..32 |-> i])
KEY_FILE_TEXT == <<"k", "e", "y">>

IoErr == [ok |-> FALSE, err |-> "No such file or directory"]

read_to_string(path) ==
  IF path = KEY_PATH
    THEN {IoErr} \cup {[ok |-> TRUE, contents |-> c] : c \in {KEY_FILE_GOOD, KEY_FILE_SHORT, KEY_FILE_TEXT}}
    ELSE {IoErr}

\* the curve test may answer anything for bytes it has not been asked about,
\* and answers the same again for bytes it has
CurveAnswers(b) == IF b \in DOMAIN curve THEN {curve[b]} ELSE BOOLEAN

Remember(b, on_curve) == [x \in DOMAIN curve \cup {b} |-> IF x = b THEN on_curve ELSE curve[x]]

ResolveProgramId ==
  /\ pc = "program_id"
  /\ LET arg == Head(seeds)
     IN  \E file \in read_to_string(arg) :
           LET v == IF file.ok /\ starts_with(file.contents, <<"[">>) /\ ends_with(file.contents, <<"]">>)
                      THEN u8_list_to_vec(SubSeq(file.contents, 2, Len(file.contents) - 1))
                      ELSE [ok |-> FALSE]
               asked == v.ok /\ Len(v.vec) = 64
               half == IF asked THEN SubSeq(v.vec, 33, 64) ELSE <<>>
           IN  \E on_curve \in (IF asked THEN CurveAnswers(half) ELSE {FALSE}) :
                 LET r1 == IF file.ok
                             THEN private_key_bytes_array_to_pubkey(file.contents, on_curve)
                             ELSE file
                     r2 == IF r1.ok THEN r1 ELSE Pubkey_from_str(arg)
                     r3 == IF r2.ok THEN r2 ELSE public_key_bytes_array_to_pubkey(arg)
                 IN  /\ seeds' = Tail(seeds)
                     /\ curve' = IF asked THEN Remember(half, on_curve) ELSE curve
                     /\ IF r3.ok
                          THEN /\ program_id' = r3.pubkey
                               /\ pc' = IF pubkey_only THEN "pubkey_only" ELSE "encode"
                               /\ UNCHANGED <<stderr, status>>
                          ELSE /\ stderr' = Append(stderr, "Invalid program id")
                               /\ status' = Exited(-1)
                               /\ pc' = "exited"
                               /\ UNCHANGED program_id
  /\ UNCHANGED <<no_bump_seed, bytes, pubkey_only, seed, bump_seed, hash_input, tried,
                 result, stdout>>

PrintPubkeyOnly ==
  /\ pc = "pubkey_only"
  /\ stdout' = IF bytes
                 THEN stdout \o print_pubkey_bytes(program_id) \o <<Newline>>
                 ELSE stdout \o Pubkey_fmt(program_id) \o <<Newline>>
  /\ status' = Exited(0)
  /\ pc' = "exited"
  /\ UNCHANGED <<seeds, no_bump_seed, bytes, pubkey_only, program_id, seed, bump_seed,
                 hash_input, tried, curve, result, stderr>>

(***************************************************************************)
(* Seed encoding, main lines 286-291                                       *)
(***************************************************************************)
EncodeSeeds ==
  /\ pc = "encode"
  /\ IF Len(seeds) < 1
       THEN /\ stderr' = Append(stderr, UsageText)
            /\ status' = Exited(-1)
            /\ pc' = "exited"
            /\ UNCHANGED seed
       ELSE LET r == encode_all(seeds, <<>>)
            IN  IF r.ok
                  THEN /\ seed' = r.bytes
                       /\ pc' = "find_pda"
                       /\ UNCHANGED <<stderr, status>>
                  ELSE /\ stderr' = Append(stderr, r.stderr)
                       /\ status' = Exited(r.exit)
                       /\ pc' = "exited"
                       /\ UNCHANGED seed
  /\ UNCHANGED <<seeds, no_bump_seed, bytes, pubkey_only, program_id, bump_seed,
                 hash_input, tried, curve, result, stdout>>

(***************************************************************************)
(* try_find_pda and find_pda, lines 159-206                                *)
(***************************************************************************)
\* a digest input that would put the bump byte behind the program id
try_find_pda_input_bump_last(pubkey, seed_bytes, bump) ==
  hasher_update(hasher_update(hasher_update(hasher_update(Sha256_new, seed_bytes), pubkey),
                              bump), DOMAIN_TAG)

\* Option<u8> as a sequence: <<>> is None, <<b>> is Some(b)
try_find_pda_input(pubkey, seed_bytes, bump) ==
  LET h0 == Sha256_new
      h1 == hasher_update(h0, seed_bytes)
      h2 == IF bump # <<>> THEN hasher_update(h1, <<bump[1]>>) ELSE h1
      h3 == hasher_update(h2, pubkey)
      h4 == hasher_update(h3, DOMAIN_TAG)
  IN  h4

try_find_pda(pubkey, seed_bytes, bump, on_curve) ==
  LET hash == hasher_finalize(try_find_pda_input(pubkey, seed_bytes, bump))
  IN  IF on_curve THEN [some |-> FALSE, hash |-> hash]
      ELSE [some |-> TRUE, hash |-> hash, pubkey |-> hash]

AsU8(x) == x % 256

\* the loop of find_pda: `let mut bump_seed = (std::u8::MAX) as i16`,
\* `while bump_seed >= 0`, `bump_seed -= 1`
\* a search that would start one above the largest byte
bump_seed_start_256 == U8_MAX + 1

bump_seed_start == U8_MAX

\* a search that would stop before candidate 0
loop_cond_positive(b) == b > 0

loop_cond(b) == b >= 0

\* a search that would skip every other candidate
bump_seed_next_skip(b) == b - 2

bump_seed_next(b) == b - 1

\* find_pda entry: the no-bump attempt, or the start of the search loop
FindPdaEnter ==
  /\ pc = "find_pda"
  /\ IF no_bump_seed
       THEN LET inp == try_find_pda_input(program_id, seed, <<>>)
                hash == hasher_finalize(inp)
            IN  \E on_curve \in CurveAnswers(hash) :
                  LET r == try_find_pda(program_id, seed, <<>>, on_curve)
                  IN  /\ hash_input' = inp
                      /\ tried' = Append(tried, [bump |-> <<>>, on_curve |-> on_curve])
                      /\ curve' = Remember(hash, on_curve)
                      /\ result' = IF r.some THEN Some(r.pubkey, 0) ELSE None
                      /\ pc' = "print"
                      /\ UNCHANGED bump_seed
       ELSE /\ bump_seed' = bump_seed_start
            /\ pc' = "loop"
            /\ UNCHANGED <<hash_input, tried, curve, result>>
  /\ UNCHANGED <<seeds, no_bump_seed, bytes, pubkey_only, program_id, seed, stdout,
                 stderr, status>>

\* one iteration of `while bump_seed >= 0`
FindPdaLoop ==
  /\ pc = "loop"
  /\ loop_cond(bump_seed)
  /\ LET b == <<AsU8(bump_seed)>>
         inp == try_find_pda_input(program_id, seed, b)
         hash == hasher_finalize(inp)
     IN  \E on_curve \in CurveAnswers(hash) :
           LET r == try_find_pda(program_id, seed, b, on_curve)
           IN  /\ hash_input' = inp
               /\ tried' = Append(tried, [bump |-> b, on_curve |-> on_curve])
               /\ curve' = Remember(hash, on_curve)
               /\ IF r.some
                    THEN /\ result' = Some(r.pubkey, AsU8(bump_seed))
                         /\ pc' = "print"
                         /\ UNCHANGED bump_seed
                    ELSE /\ bump_seed' = bump_seed_next(bump_seed)
                         /\ UNCHANGED <<result, pc>>
  /\ UNCHANGED <<seeds, no_bump_seed, bytes, pubkey_only, program_id, seed, stdout,
                 stderr, status>>

\* the loop condition fails: fall through to `None`
FindPdaExhausted ==
  /\ pc = "loop"
  /\ ~loop_cond(bump_seed)
  /\ result' = None
  /\ pc' = "print"
  /\ UNCHANGED <<seeds, no_bump_seed, bytes, pubkey_only, program_id, seed, bump_seed,
                 hash_input, tried, curve, stdout, stderr, status>>

(***************************************************************************)
(* Output, main lines 293-314                                              *)
(***************************************************************************)
NOT_FOUND_MESSAGE == "Cannot find PDA, consider allowing bump seed"
\* a not-found exit that would share the status of the input errors
NOT_FOUND_EXIT_minus_one == SeedExit(<<>>).exit

NOT_FOUND_EXIT == 1

\* an output that would append the bump in no-bump mode too
print_found_always_bump(pda, bump, no_bump, as_bytes_flag) ==
  IF as_bytes_flag
    THEN print_pubkey_bytes(pda) \o <<".">> \o fmt_u8(bump) \o <<Newline>>
    ELSE Pubkey_fmt(pda) \o <<".">> \o fmt_u8(bump) \o <<Newline>>

\* what main prints for Some((pda, bump_seed))
print_found(pda, bump, no_bump, as_bytes_flag) ==
  IF no_bump
    THEN IF as_bytes_flag
           THEN print_pubkey_bytes(pda) \o <<Newline>>
           ELSE Pubkey_fmt(pda) \o <<Newline>>
  ELSE IF as_bytes_flag
    THEN print_pubkey_bytes(pda) \o <<".">> \o fmt_u8(bump) \o <<Newline>>
  ELSE Pubkey_fmt(pda) \o <<".">> \o fmt_u8(bump) \o <<Newline>>

PrintResult ==
  /\ pc = "print"
  /\ IF result.some
       THEN /\ stdout' = stdout \o print_found(result.pubkey, result.bump, no_bump_seed, bytes)
            /\ status' = Exited(0)
            /\ UNCHANGED stderr
       ELSE /\ stderr' = Append(stderr, NOT_FOUND_MESSAGE)
            /\ status' = Exited(NOT_FOUND_EXIT)
            /\ UNCHANGED stdout
  /\ pc' = "exited"
  /\ UNCHANGED <<seeds, no_bump_seed, bytes, pubkey_only, program_id, seed, bump_seed,
                 hash_input, tried, curve, result>>

(***************************************************************************)
(* Inputs                                                                  *)
(***************************************************************************)
Lit(prefix, payload) == prefix \o payload \o <<"]">>

RECURSIVE JoinTokens(_)
JoinTokens(ts) ==
  IF Len(ts) = 1 THEN ts[1] ELSE ts[1] \o <<",">> \o JoinTokens(Tail(ts))

RECURSIVE Wrap(_, _)
Wrap(l, k) == IF k = 0 THEN l ELSE Lit(SHA256_PREFIX, Wrap(l, k - 1))

SeqsUpTo(S, lo, hi) == UNION {[1..n -> S] : n \in lo..hi}

Ones(n) == [i \in 1..n |-> "1"]

\* program id arguments: base-58 text of 32 and of 31 bytes, byte arrays of 32
\* and of 31 elements, the key file path
PID_B58 == Ones(32)
PID_B58_SHORT == Ones(31)
PID_ARRAY == print_pubkey_bytes([i \in 1..32 |-> 7 * i])
PID_ARRAY_SHORT == print_pubkey_bytes([i \in 1..31 |-> 7 * i])

LIT_U8_1 == Lit(U8_PREFIX, <<"1">>)
LIT_U8_2 == Lit(U8_PREFIX, <<"2">>)
LIT_U8_1_1 == Lit(U8_PREFIX, <<"1", ",", "1">>)
LIT_U8_1_SP_2 == Lit(U8_PREFIX, <<"1", " ", "2">>)
LIT_U8_10 == Lit(U8_PREFIX, <<"1", "0">>)
LIT_U8_256 == Lit(U8_PREFIX, <<"2", "5", "6">>)
LIT_U8_OPEN == <<"u", "8", "[", "1">>
LIT_STRING_A == Lit(STRING_PREFIX, <<"a">>)
LIT_STRING_AB == Lit(STRING_PREFIX, <<"a", " ", "b", "]">>)
LIT_STRING_EMPTY == Lit(STRING_PREFIX, <<>>)
LIT_STRING_NESTED == Lit(STRING_PREFIX, LIT_U8_1)
LIT_PUBKEY == Lit(PUBKEY_PREFIX, PID_B58)
LIT_PUBKEY_SHORT == Lit(PUBKEY_PREFIX, PID_B58_SHORT)
LIT_PUBKEY_BADCHAR == Lit(PUBKEY_PREFIX, <<"0", "O">>)
LIT_U128 == <<"u", "1", "2", "8", "[", "1", "]">>
LIT_NO_TAG == <<"[", "1", "]">>
LIT_BRACKET == <<"]">>
LIT_TEXT == <<"a", "b">>

\* the arguments of whole-program runs
MainSeedLits == {LIT_U8_1_SP_2, Wrap(LIT_STRING_A, 1), LIT_U8_256, LIT_U8_OPEN}

FlagCombos == {<<OPT_BYTES>>, <<OPT_NO_BUMP, OPT_BYTES>>}

ArgvSet ==
  {f \o <<PID_B58>> \o l : f \in FlagCombos, l \in SeqsUpTo(MainSeedLits, 0, MaxSeeds)}
  \cup {f \o <<PID_B58, LIT_U8_1>> :
          f \in {<<>>, <<OPT_NO_BUMP>>, <<OPT_NO_BUMP, OPT_BYTES, OPT_NO_BUMP>>}}
  \cup {f \o <<pid, LIT_U8_1>> :
          f \in FlagCombos, pid \in {PID_B58_SHORT, PID_ARRAY, PID_ARRAY_SHORT, KEY_PATH}}
  \cup {f \o <<pid>> :
          f \in {<<OPT_PUBKEY>>, <<OPT_BYTES, OPT_PUBKEY>>}, pid \in {PID_B58, PID_ARRAY_SHORT, KEY_PATH}}
  \cup {<<>>, <<OPT_BYTES>>, <<OPT_HELP>>, <<OPT_NO_BUMP, OPT_HELP, PID_B58>>}

\* the literals handed to the seed encoder on its own
Tokens ==
  { <<"2", "5", "5">>, <<"2", "5", "6">>,
    <<"6", "5", "5", "3", "5">>, <<"6", "5", "5", "3", "6">>,
    <<"4", "2", "9", "4", "9", "6", "7", "2", "9", "5">>,
    <<"4", "2", "9", "4", "9", "6", "7", "2", "9", "6">>,
    <<"1", "8", "4", "4", "6", "7", "4", "4", "0", "7", "3", "7", "0", "9", "5", "5", "1", "6", "1", "5">>,
    <<"1", "8", "4", "4", "6", "7", "4", "4", "0", "7", "3", "7", "0", "9", "5", "5", "1", "6", "1", "6">>,
    <<>>, <<"x">>, <<"1", " ", "2">>, <<" ", "3">>, <<"+", "0", "7">>, <<"-", "1">> }

UintPrefixes == {U8_PREFIX, U16_PREFIX, U32_PREFIX, U64_PREFIX}

UintLits == {Lit(p, JoinTokens(ts)) : p \in UintPrefixes, ts \in SeqsUpTo(Tokens, 1, MaxTokens)}

BaseLits ==
  { LIT_U8_10, LIT_U8_256, LIT_U8_OPEN, LIT_STRING_A, LIT_STRING_AB, LIT_STRING_EMPTY,
    LIT_STRING_NESTED, LIT_PUBKEY, LIT_PUBKEY_SHORT, LIT_PUBKEY_BADCHAR, LIT_U128,
    LIT_NO_TAG, LIT_BRACKET, LIT_TEXT, <<>>,
    Lit(U16_PREFIX, <<"2", "5", "8">>), Lit(U32_PREFIX, <<"1", " ", "2">>),
    SHA256_PREFIX \o LIT_U8_10 }

NestLits == {Wrap(l, k) : l \in BaseLits, k \in 0..MaxNest}

PairLits == {LIT_U8_1, LIT_U8_2, LIT_U8_1_1, LIT_STRING_A, LIT_U8_256}

EncodeLists ==
  {<<>>} \cup {<<l>> : l \in UintLits \cup NestLits} \cup SeqsUpTo(PairLits, 2, MaxSeeds)

(***************************************************************************)
(* Specifications                                                          *)
(***************************************************************************)
Start(at, args) ==
  /\ pc = at
  /\ seeds = args
  /\ no_bump_seed = FALSE
  /\ bytes = FALSE
  /\ pubkey_only = FALSE
  /\ seed = <<>>
  /\ bump_seed = 0
  /\ hash_input = <<>>
  /\ tried = <<>>
  /\ curve = <<>>
  /\ result = Pending
  /\ stdout = <<>>
  /\ stderr = <<>>
  /\ status = Running

\* the whole program, from the entry of main
Init == \E args \in ArgvSet : Start("main", args) /\ program_id = <<>>

Next ==
  \/ ParseOptions
  \/ ResolveProgramId
  \/ PrintPubkeyOnly
  \/ EncodeSeeds
  \/ FindPdaEnter
  \/ FindPdaLoop
  \/ FindPdaExhausted
  \/ PrintResult

Spec == Init /\ [][Next]_vars

\* the seed encoder on its own: main at line 286 with the program id resolved
InitEncode == \E args \in EncodeLists : Start("encode", args) /\ program_id = Zeros(32)

NextEncode == EncodeSeeds

SpecEncode == InitEncode /\ [][NextEncode]_vars

(***************************************************************************)
(* Vocabulary of the properties                                            *)
(***************************************************************************)
\* hash_candidate(seed_bytes, bump_byte, program_address) of the PdaHasher contract
HashCandidate(seed_bytes, bump, address) ==
  hasher_finalize(seed_bytes \o bump \o address \o DOMAIN_TAG)

BumpSearchReturned == ~no_bump_seed /\ result.returned

NoBumpReturned == no_bump_seed /\ result.returned

\* the bump candidates whose hash the curve test has answered "on the curve"
OnCurveCandidates ==
  {tried[i].bump[1] : i \in {j \in 1..Len(tried) : tried[j].bump # <<>> /\ tried[j].on_curve}}

AnsweredOnCurve(h) == h \in DOMAIN curve /\ curve[h]

AnsweredOffCurve(h) == h \in DOMAIN curve /\ ~curve[h]

(***************************************************************************)
(* Properties of the bump seed search                                      *)
(***************************************************************************)
\* C1: in bump-search mode, whenever find_pda returns bump b, every candidate c
\* with b < c <= 255 was hashed and found on the curve, so of two off-curve
\* candidates the larger one is returned.
C1_LargestBumpReturned ==
  (BumpSearchReturned /\ result.some) =>
     LET on_curve == OnCurveCandidates
     IN  \A c \in (result.bump + 1)..255 : c \in on_curve

C1_Witness == BumpSearchReturned /\ result.some /\ result.bump = 3

\* C2: in bump-search mode Found(address, bump) is returned only with address =
\* hash_candidate(seed, bump, program) and that hash off the curve, and
\* NotFound is returned exactly when all 256 candidates 255..0 are on the curve.
C2_FoundIffOffCurve ==
  BumpSearchReturned =>
     /\ result.some =>
          /\ result.bump \in 0..255
          /\ result.pubkey = HashCandidate(seed, <<result.bump>>, program_id)
          /\ AnsweredOffCurve(result.pubkey)
     /\ ~result.some <=>
          \A c \in 0..255 : AnsweredOnCurve(HashCandidate(seed, <<c>>, program_id))

C2_Witness == BumpSearchReturned /\ result = None /\ Len(tried) = 256

\* C3: in no-bump mode exactly one digest is computed, over an input without a
\* bump byte, and no candidate is tried; the result is Found(address) iff that
\* digest is off the curve, and what is printed on Found is the address alone.
C3_NoBumpSingleAttempt ==
  NoBumpReturned =>
     LET h == HashCandidate(seed, <<>>, program_id)
     IN  /\ Len(tried) = 1
         /\ tried[1].bump = <<>>
         /\ hash_input = seed \o program_id \o DOMAIN_TAG
         /\ result.some <=> AnsweredOffCurve(h)
         /\ ~result.some <=> AnsweredOnCurve(h)
         /\ result.some => result.pubkey = h
         /\ (pc = "exited" /\ result.some) =>
              /\ stdout = (IF bytes THEN print_pubkey_bytes(h) ELSE bs58_encode(h)) \o <<Newline>>
              /\ \A i \in 1..Len(stdout) : stdout[i] # "."
         /\ (pc = "exited" /\ ~result.some) => stdout = <<>>

C3_Witness == NoBumpReturned /\ pc = "exited" /\ result.some /\ ~bytes

\* C4: the digest input of try_find_pda is the seed bytes, then the bump byte as
\* exactly one byte when present, then the 32 program-address bytes, then the
\* 21 ASCII bytes "ProgramDerivedAddress"; a present bump makes it one byte longer.
C4_DigestInputLayout ==
  tried # <<>> =>
     LET bump == tried[Len(tried)].bump
         tag == <<80, 114, 111, 103, 114, 97, 109, 68, 101, 114, 105, 118, 101, 100,
                  65, 100, 100, 114, 101, 115, 115>>
     IN  /\ Len(bump) = IF no_bump_seed THEN 0 ELSE 1
         /\ Len(program_id) = 32
         /\ hash_input = seed \o bump \o program_id \o tag
         /\ Len(hash_input) = Len(seed) + Len(bump) + 32 + 21

C4_Witness ==
  /\ tried # <<>>
  /\ tried[Len(tried)].bump = <<254>>
  /\ Len(seed) = 33

\* C6: not finding a PDA ends the process with its own signal (exit status 1 and
\* the "Cannot find PDA" message), set by exit() and not by a panic; every other
\* failing end (malformed seed, invalid program id, usage) has another status
\* and another message.
C6_NotFoundDistinct ==
  pc = "exited" =>
     IF result.returned /\ ~result.some
       THEN /\ status = Exited(1)
            /\ stderr = <<NOT_FOUND_MESSAGE>>
            /\ stdout = <<>>
       ELSE /\ status.code \in {0, -1, 101}
            /\ \A i \in 1..Len(stderr) : stderr[i] # NOT_FOUND_MESSAGE
            /\ status.code # 0 => stderr # <<>>

C6_Witness == pc = "exited" /\ result = None /\ ~no_bump_seed

\* C10: the search loop ends after at most 256 candidate evaluations: the
\* counter starts at 255, goes down by exactly 1 after each on-curve answer,
\* stays within -1..255, the byte given to the hasher is the counter itself
\* (255, 254, .. in strictly descending order, never truncated), and the loop
\* is left with NotFound once the counter is below 0.
C10_CounterInvariant ==
  /\ bump_seed \in -1..255
  /\ Len(tried) <= 256
  /\ ~no_bump_seed =>
       /\ \A i \in 1..Len(tried) : tried[i].bump = <<256 - i>>
       /\ \A i \in 1..(Len(tried) - 1) : tried[i].on_curve
       /\ pc = "loop" => bump_seed = 255 - Len(tried)
       /\ (result.returned /\ result.some) => bump_seed = result.bump
       /\ (result.returned /\ ~result.some) => bump_seed = -1

\* a step taken inside the loop evaluates one candidate, the counter itself,
\* and either leaves the loop with it or moves the counter down by one; below 0
\* the only step is the one that returns NotFound
C10_StepDown ==
  pc = "loop" =>
     /\ bump_seed >= 0 =>
          /\ Len(tried') = Len(tried) + 1
          /\ tried'[Len(tried')].bump = <<bump_seed>>
          /\ IF tried'[Len(tried')].on_curve
               THEN pc' = "loop" /\ bump_seed' = bump_seed - 1
               ELSE pc' = "print" /\ result' = Some(HashCandidate(seed, <<bump_seed>>, program_id), bump_seed)
     /\ bump_seed < 0 => (pc' = "print" /\ result' = None /\ tried' = tried)

C10_BoundedSearch == []C10_CounterInvariant /\ [][C10_StepDown]_vars

C10_Witness == pc = "loop" /\ bump_seed = -1 /\ Len(tried) = 256

(***************************************************************************)
(* Vocabulary of the seed grammar, as the specification words it           *)
(***************************************************************************)
Encoded == pc = "find_pda"

Aborted == pc = "exited" /\ status.code # 0

RECURSIVE Trim(_)
Trim(t) ==
  IF t # <<>> /\ t[1] = " " THEN Trim(Tail(t))
  ELSE IF t # <<>> /\ t[Len(t)] = " " THEN Trim(SubSeq(t, 1, Len(t) - 1))
  ELSE t

Unsigned(t) == IF t # <<>> /\ t[1] = "+" THEN Tail(t) ELSE t

\* a decimal numeral, with or without a plus sign
IsNumeral(t) == Unsigned(t) # <<>> /\ \A i \in 1..Len(Unsigned(t)) : IsDigit(Unsigned(t)[i])

RECURSIVE StripZeros(_)
StripZeros(ds) == IF ds # <<>> /\ ds[1] = 0 THEN StripZeros(Tail(ds)) ELSE ds

\* the value of a numeral as decimal digits without leading zeros (0 is <<>>)
NumeralOf(t) == StripZeros([i \in 1..Len(Unsigned(t)) |-> DigitVal(Unsigned(t)[i])])

NumeralLeq(a, b) ==
  \/ Len(a) < Len(b)
  \/ /\ Len(a) = Len(b)
     /\ \/ a = b
        \/ \E i \in 1..Len(a) : a[i] < b[i] /\ \A j \in 1..(i - 1) : a[j] = b[j]

\* 2^W - 1 for W = 8 * nbytes, the upper ends of the ranges in the usage text
MaxNumeral(nbytes) ==
  IF nbytes = 1 THEN <<2, 5, 5>>
  ELSE IF nbytes = 2 THEN <<6, 5, 5, 3, 5>>
  ELSE IF nbytes = 4 THEN <<4, 2, 9, 4, 9, 6, 7, 2, 9, 5>>
  ELSE <<1, 8, 4, 4, 6, 7, 4, 4, 0, 7, 3, 7, 0, 9, 5, 5, 1, 6, 1, 5>>

InRange(t, nbytes) == NumeralLeq(NumeralOf(t), MaxNumeral(nbytes))

\* the number a little-endian byte string stands for, as a decimal numeral
LittleEndianValue(b) == Reverse(Rebase(Reverse(b), <<>>, 256, 10))

HasUintTag(l) == \E p \in UintPrefixes : starts_with(l, p)

UintTag(l) == CHOOSE p \in UintPrefixes : starts_with(l, p)

UintWidth(l) == IF UintTag(l) = U8_PREFIX THEN 1
                ELSE IF UintTag(l) = U16_PREFIX THEN 2
                ELSE IF UintTag(l) = U32_PREFIX THEN 4 ELSE 8

IsUintLit(l) == ends_with(l, <<"]">>) /\ HasUintTag(l)

Payload(l, prefix) == SubSeq(l, Len(prefix) + 1, Len(l) - 1)

\* the comma-separated tokens of an integer list, each without the blanks around it
ListTokens(l) ==
  LET raw == split_comma(Payload(l, UintTag(l)))
  IN  [i \in 1..Len(raw) |-> Trim(raw[i])]

\* the same tokens once every blank of the payload has been deleted
SquashedTokens(l) == split_comma(replace_spaces(Payload(l, UintTag(l))))

TokensValid(toks, nbytes) ==
  \A i \in 1..Len(toks) : IsNumeral(toks[i]) /\ InRange(toks[i], nbytes)

\* a literal with no closing bracket, an unknown tag, or an integer token that
\* is not a number of its range, at any depth of Sha256[..]
RECURSIVE Malformed(_, _)
Malformed(l, squashed) ==
  IF ~ends_with(l, <<"]">>) THEN TRUE
  ELSE IF HasUintTag(l)
    THEN ~TokensValid(IF squashed THEN SquashedTokens(l) ELSE ListTokens(l), UintWidth(l))
  ELSE IF starts_with(l, STRING_PREFIX) \/ starts_with(l, PUBKEY_PREFIX) THEN FALSE
  ELSE IF starts_with(l, SHA256_PREFIX) THEN Malformed(Payload(l, SHA256_PREFIX), squashed)
  ELSE TRUE

PastEncoding == pc \in {"find_pda", "loop", "print"} \/ result.returned

SeedAbort ==
  /\ pc = "exited"
  /\ stderr # <<>>
  /\ stderr[Len(stderr)] \in {"Invalid seed", "panic"}

FailFast(squashed) ==
  /\ PastEncoding => \A i \in 1..Len(seeds) : ~Malformed(seeds[i], squashed)
  /\ SeedAbort =>
       /\ \E i \in 1..Len(seeds) : make_seed(seeds[i]).ok = FALSE
       /\ status.code # 0
       /\ seed = <<>>
       /\ tried = <<>>
       /\ result = Pending
       /\ stdout = <<>>

UintListEncoding(toks) ==
  (pc # "encode" /\ Len(seeds) = 1 /\ IsUintLit(seeds[1])) =>
     LET w == UintWidth(seeds[1])
         n == Len(toks)
     IN  IF TokensValid(toks, w)
           THEN /\ Encoded
                /\ Len(seed) = n * w
                /\ \A i \in 1..n :
                     LittleEndianValue(SubSeq(seed, (i - 1) * w + 1, i * w)) = NumeralOf(toks[i])
           ELSE Aborted /\ seed = <<>>

(***************************************************************************)
(* Properties of the seed encoder                                          *)
(***************************************************************************)
\* C5: seed encoding is fail-fast: a literal at any position or nesting depth
\* that lacks its closing bracket, has an unknown tag, or has a non-numeric or
\* out-of-range integer token never gets past encoding, and the abort leaves
\* no partial result: no digest computed, nothing printed.
C5_FailFast == FailFast(FALSE)

\* the same with the integer tokens taken after all blanks are deleted
C5_FailFastSquashed == FailFast(TRUE)

\* C7: an integer-list literal of width W whose n tokens are all numbers in
\* 0..2^W-1 encodes to n*W/8 bytes, each value as W/8 little-endian bytes in
\* token order; with any non-numeric or out-of-range token the literal fails
\* and no value is clamped, wrapped or coerced.
C7_UintListEncoding == UintListEncoding(ListTokens(seeds[1]))

\* the same with the tokens taken after all blanks are deleted
C7_UintListEncodingSquashed == UintListEncoding(SquashedTokens(seeds[1]))

\* encode(lit) of the SeedEncoder contract, for a literal that encodes
Encoding(l) == make_seed(l).bytes

AllEncode == \A i \in 1..Len(seeds) : make_seed(seeds[i]).ok

UsageExit == pc = "exited" /\ status = Exited(-1) /\ stderr = <<UsageText>> /\ seed = <<>>

ConcatenationInOrder ==
  /\ Encoded
  /\ seed = Flatten([i \in 1..Len(seeds) |-> Encoding(seeds[i])])
  /\ Len(seeds) = 1 => seed = Encoding(seeds[1])

\* C8 as stated: encode_all is the concatenation of the encodings in argument
\* order, encode_all([]) is the empty byte sequence, encode_all([lit]) is
\* encode(lit), and swapping two literals whose encodings differ gives a
\* different seed buffer.
C8_ConcatenationAsStated ==
  (pc # "encode" /\ AllEncode) =>
     /\ ConcatenationInOrder
     /\ seeds = <<>> => seed = <<>>
     /\ (Len(seeds) = 2 /\ Encoding(seeds[1]) # Encoding(seeds[2])) =>
          seed # encode_all(<<seeds[2], seeds[1]>>, <<>>).bytes

\* C8 amended: for a non-empty list encode_all is the concatenation of the
\* encodings in argument order and encode_all([lit]) is encode(lit); swapping
\* two literals with encodings x and y gives a different seed buffer exactly
\* when x \o y # y \o x; an empty list is not encoded at all, main prints the
\* usage text and exits with status -1.
C8_Concatenation ==
  (pc # "encode" /\ AllEncode) =>
     IF seeds = <<>> THEN UsageExit
     ELSE /\ ConcatenationInOrder
          /\ Len(seeds) = 2 =>
               LET x == Encoding(seeds[1])
                   y == Encoding(seeds[2])
                   swapped == encode_all(<<seeds[2], seeds[1]>>, <<>>).bytes
               IN  /\ swapped = y \o x
                   /\ seed # swapped <=> x \o y # y \o x

C8_Witness == Encoded /\ seeds = <<LIT_U8_1, LIT_U8_2>> /\ seed = <<1, 2>>

\* C9: for every nested literal X that encodes, at any nesting depth,
\* encode(Sha256[X]) is the 32-byte digest of encode(X), whatever the length
\* of encode(X).
C9_HashOfSeed ==
  (pc # "encode" /\ Len(seeds) = 1 /\ ends_with(seeds[1], <<"]">>)
     /\ starts_with(seeds[1], SHA256_PREFIX)
     /\ make_seed(Payload(seeds[1], SHA256_PREFIX)).ok) =>
        LET x == Encoding(Payload(seeds[1], SHA256_PREFIX))
        IN  /\ Encoded
            /\ seed = hasher_finalize(x)
            /\ Len(seed) = 32

C9_Witness ==
  /\ Encoded
  /\ seeds = <<Wrap(LIT_STRING_EMPTY, 2)>>
  /\ seed = hasher_finalize(hasher_finalize(<<>>))

====
